---- MODULE Spec2Model ----
(***************************************************************************)
(* Template Reconstruction Engine: the Chunk Merger                        *)
(* (_merge_section_mappings), the chunk loop of map_content_to_sections,   *)
(* the Style DNA Extractor (_analyze_docx_sections), the Front-Matter      *)
(* Updater (_update_safe_zone), the Body Rebuilder                         *)
(* (_render_docx_sections) and the job of the API (process_documents,      *)
(* cleanup_job, download_document).                                        *)
(*                                                                         *)
(* A text (a section title) is a sequence of one-character strings, so     *)
(* that str.lower() and str.strip() are computed character by character.   *)
(***************************************************************************)
EXTENDS Integers, Sequences, FiniteSets, TLC

VARIABLES
    \* map_content_to_sections / _merge_section_mappings
    pc,               \* position in map_content_to_sections
    api_key_set,      \* settings.groq_api_key is not empty
    has_sections,     \* analysis.sections is not empty
    blocks,           \* content.blocks: the content of each block, in order
    chunks,           \* _chunk_content_blocks(content.blocks, chunk_size)
    chunk_idx,        \* 0-based index of the chunk in the loop
    attempt,          \* 0-based index of the attempt in the retry loop
    chunk_sections,   \* [isNone, list]: None, or the list kept for the chunk
    last_error,       \* class of last_error, "None" when unset
    all_sections,     \* the chunk results, in chunk order
    merged_sections,  \* what _merge_section_mappings returned
    exc,              \* the exception that left map_content_to_sections
    tries,            \* calls of the mapping service made for the chunk
    failed,           \* attempts of the chunk that ended in an except clause
    last_answer,      \* kind of the last answer received for the chunk
    remerged,         \* _merge_section_mappings([merged_sections])
    spliced,          \* _merge_section_mappings([A']) for all_sections = [A, B]
    \* _analyze_docx_sections
    an_pc,              \* position in _analyze_docx_sections
    doc_opens,          \* Document(str(file_path)) opens the template
    paragraphs,         \* doc.paragraphs: [text, style] of each paragraph
    fault_at,           \* 0-based index of a paragraph whose read raises, or -1
    idx,                \* 0-based index of the paragraph in the loop
    first_heading_idx,
    heading_style_name,
    body_style_name,
    safe_zone_end,
    template_dna,       \* the TemplateDNA of the TemplateAnalysis returned
    an_exc,             \* the exception that left _analyze_docx_sections
    \* _render_docx_sections / _update_safe_zone
    r_pc,               \* position in _render_docx_sections
    mappings,           \* mapping.mappings: [sections, has_sec_all]
    styles,             \* style names the template defines besides those in use
    doc,                \* doc.paragraphs of the document being rendered
    sections_data,
    title_idx,          \* index _detect_cover_title returned, -1 for None
    toc_entries,        \* indices of the TOC entries found, in document order
    front_warned,       \* the front-matter update logged "Failed to update ..."
    sec_i,              \* 0-based index of the section in the rebuild loop
    deduplicated_body,  \* of the section the loop took last
    r_exc,              \* the exception that left _render_docx_sections
    saved,              \* the paragraphs of the file at output_path, if saved
    \* process_documents / download_document
    job_pc,             \* position in process_documents
    request,            \* [normal, target, output_format] of the request
    job_dir,            \* temp_dir / job_id: [exists, files]
    response,           \* [status, step, filename]; status 0 before the answer
    served              \* the files download_document has returned

mapVars == <<pc, api_key_set, has_sections, blocks, chunks, chunk_idx, attempt,
             chunk_sections, last_error, all_sections, merged_sections, exc,
             tries, failed, last_answer, remerged, spliced>>

anVars == <<an_pc, doc_opens, paragraphs, fault_at, idx, first_heading_idx,
            heading_style_name, body_style_name, safe_zone_end, template_dna,
            an_exc>>

rVars == <<r_pc, mappings, styles, doc, sections_data, title_idx, toc_entries,
           front_warned, sec_i, deduplicated_body, r_exc, saved>>

jobVars == <<job_pc, request, job_dir, response, served>>

vars == <<mapVars, anVars, rVars, jobVars>>

-----------------------------------------------------------------------------
(* Bounds of the model *)

\* most chunk results in a list given to the merger
MaxChunks == 3
\* most sections in all the chunk results of one list together
MaxTotalSecs == 3
\* most content blocks of a source document
MaxBlocks == 5
\* most paragraphs of a template
MaxParas == 3
\* chunk_size of map_content_to_sections (25 by default), scaled down
ChunkSize == 2

\* max_retries of map_content_to_sections
max_retries == 2

-----------------------------------------------------------------------------
(* Texts *)

\* the whitespace str.strip() removes, as far as the texts of the model go
Whitespace == {" ", "\t", "\n"}

UpperLetters == <<"A", "B", "C", "D", "E", "F", "G", "H", "I", "J", "K", "L", "M",
                  "N", "O", "P", "Q", "R", "S", "T", "U", "V", "W", "X", "Y", "Z">>
LowerLetters == <<"a", "b", "c", "d", "e", "f", "g", "h", "i", "j", "k", "l", "m",
                  "n", "o", "p", "q", "r", "s", "t", "u", "v", "w", "x", "y", "z">>

\* str.lower() on one character
LowerChar(c) ==
    IF \E i \in 1..Len(UpperLetters) : UpperLetters[i] = c
    THEN LowerLetters[CHOOSE i \in 1..Len(UpperLetters) : UpperLetters[i] = c]
    ELSE c

\* str.lower(); SubSeq makes a tuple of the function
Lower(t) == SubSeq([i \in 1..Len(t) |-> LowerChar(t[i])], 1, Len(t))

RECURSIVE LStrip(_)
LStrip(t) == IF t # <<>> /\ Head(t) \in Whitespace THEN LStrip(Tail(t)) ELSE t

RECURSIVE RStrip(_)
RStrip(t) ==
    IF t # <<>> /\ t[Len(t)] \in Whitespace THEN RStrip(SubSeq(t, 1, Len(t) - 1)) ELSE t

\* str.strip()
Strip(t) == RStrip(LStrip(t))

\* title.lower().strip()
NormTitle(t) == Strip(Lower(t))

\* sub in t, for two texts
Contains(t, sub) ==
    \E i \in 0..(Len(t) - Len(sub)) : SubSeq(t, i + 1, i + Len(sub)) = sub

-----------------------------------------------------------------------------
(* Template paragraphs *)

StyleHeading1 == <<"H", "e", "a", "d", "i", "n", "g", " ", "1">>
StyleHeading1Upper == <<"H", "E", "A", "D", "I", "N", "G", " ", "1">>
StyleHeading2 == <<"H", "e", "a", "d", "i", "n", "g", " ", "2">>
StyleNormal == <<"N", "o", "r", "m", "a", "l">>
StyleBodyText == <<"B", "o", "d", "y", " ", "T", "e", "x", "t">>
StyleTOC1 == <<"T", "O", "C", " ", "1">>

\* A paragraph of the template: its text and the name of its style.
Para(text, style) == [text |-> text, style |-> style]

\* The paragraphs a template of the model is made of.
ParaPool == {Para(<<>>, StyleNormal),
             Para(<<" ">>, StyleHeading1),
             Para(<<"a">>, StyleNormal),
             Para(<<"b">>, StyleBodyText),
             Para(<<"c">>, StyleHeading1),
             Para(<<"d">>, StyleHeading1Upper),
             Para(<<"e">>, StyleHeading2),
             Para(<<"f">>, StyleTOC1)}

NoDNA == [heading_style_name |-> <<>>, heading_font_size |-> 0,
          body_style_name |-> <<>>, body_font_size |-> 0,
          safe_zone_end_idx |-> -1, first_content_section_idx |-> -1]

idleAnalyze ==
    /\ an_pc = "idle"
    /\ doc_opens = TRUE
    /\ paragraphs = <<>>
    /\ fault_at = -1
    /\ idx = 0
    /\ first_heading_idx = -1
    /\ heading_style_name = StyleHeading1
    /\ body_style_name = StyleNormal
    /\ safe_zone_end = 0
    /\ template_dna = NoDNA
    /\ an_exc = "None"

\* no render is under way
idleRender ==
    /\ r_pc = "idle"
    /\ mappings = [sections |-> <<>>, has_sec_all |-> FALSE]
    /\ styles = {}
    /\ doc = <<>>
    /\ sections_data = <<>>
    /\ title_idx = -1
    /\ toc_entries = <<>>
    /\ front_warned = FALSE
    /\ sec_i = 0
    /\ deduplicated_body = <<>>
    /\ r_exc = "None"
    /\ saved = <<>>

\* no request is being processed
idleJob ==
    /\ job_pc = "idle"
    /\ request = [normal |-> "", target |-> "", output_format |-> "docx"]
    /\ job_dir = [exists |-> FALSE, files |-> {}]
    /\ response = [status |-> 0, step |-> "", filename |-> ""]
    /\ served = {}

-----------------------------------------------------------------------------
(* Sections *)

\* A body is a list of items or, as the merger allows, a plain string.
ListBody(items) == [isStr |-> FALSE, items |-> items, text |-> ""]
StrBody(s) == [isStr |-> TRUE, items |-> <<>>, text |-> s]

TextItem(s) == [type |-> "text", content |-> s]

\* if isinstance(body, str): body = [{"type": "text", "content": body}]
BodyAsList(b) == IF b.isStr THEN <<TextItem(b.text)>> ELSE b.items

\* shape "dict": a dict whose title is a string; "nulltitle": a dict whose
\* title is JSON null; "nondict": an element that is no dict (a string).
Section(t, b) == [shape |-> "dict", title |-> t, body |-> b]
NullTitleSection == [shape |-> "nulltitle", title |-> <<>>, body |-> ListBody(<<>>)]
NonDictElement == [shape |-> "nondict", title |-> <<>>, body |-> ListBody(<<>>)]

TSummary == <<"S", "u", "m", "m", "a", "r", "y">>
TSummarySpaced == <<" ", "s", "u", "m", "m", "a", "r", "y", " ">>
TExperience == <<"E", "x", "p", "e", "r", "i", "e", "n", "c", "e">>
TEmpty == <<>>

Titles == {TSummary, TSummarySpaced, TExperience, TEmpty}

Bodies == {ListBody(<<TextItem("worked at X"),
                       [type |-> "bullet", content |-> "worked at Y"]>>),
           StrBody("worked at Z")}

Sections == {Section(t, b) : t \in Titles, b \in Bodies}

-----------------------------------------------------------------------------
(* _merge_section_mappings *)

\* One iteration of the boundary loop (step 1): chunk_sections is the i-th
\* chunk result (i counted from 1), merged the list built so far.
BoundaryStep(merged, cs, i) ==
    IF cs = <<>> THEN merged
    ELSE IF i = 1 THEN merged \o cs
    ELSE IF merged # <<>> THEN
        LET last_section == merged[Len(merged)]
            first_section == cs[1]
            last_title == NormTitle(last_section.title)
            first_title == NormTitle(first_section.title)
        IN  IF last_title # <<>> /\ first_title # <<>> /\ last_title = first_title
            THEN [merged EXCEPT ![Len(merged)].body =
                      ListBody(BodyAsList(last_section.body)
                               \o BodyAsList(first_section.body))]
                 \o Tail(cs)
            ELSE merged \o cs
    ELSE merged \o cs

RECURSIVE BoundaryMerge(_, _, _)
BoundaryMerge(all, i, merged) ==
    IF i > Len(all) THEN merged
    ELSE BoundaryMerge(all, i + 1, BoundaryStep(merged, all[i], i))

\* One iteration of the global deduplication (step 2). st holds deduplicated
\* and seen_titles (normalized title -> index in deduplicated).
DedupStep(st, section) ==
    LET normalized_title == NormTitle(section.title)
    IN  IF normalized_title \in DOMAIN st.seen_titles
        THEN LET existing_idx == st.seen_titles[normalized_title]
                 existing_body == BodyAsList(st.deduplicated[existing_idx].body)
                 new_body == BodyAsList(section.body)
             IN  [st EXCEPT !.deduplicated[existing_idx].body =
                                ListBody(existing_body \o new_body)]
        ELSE [deduplicated |-> Append(st.deduplicated, section),
              seen_titles |-> st.seen_titles
                              @@ (normalized_title :> Len(st.deduplicated) + 1)]

RECURSIVE DedupLoop(_, _, _)
DedupLoop(merged, k, st) ==
    IF k > Len(merged) THEN st
    ELSE DedupLoop(merged, k + 1, DedupStep(st, merged[k]))

\* seen_titles starts as the empty dict, <<>> being the function of no key
GlobalDedup(merged) ==
    DedupLoop(merged, 1, [deduplicated |-> <<>>, seen_titles |-> <<>>]).deduplicated

\* A slip in the early returns: the one-chunk list treated like the empty one.
MergeEarlyReturnEmpty(all) ==
    IF Len(all) <= 1 THEN <<>>
    ELSE GlobalDedup(BoundaryMerge(all, 1, <<>>))

\* The value _merge_section_mappings returns when it raises nothing. The code
\* writes the fused bodies into the dicts of its argument; all_sections keeps
\* the chunk results as they were given, which is what the claims read.
MergeSectionMappings(all) ==
    IF all = <<>> THEN <<>>
    ELSE IF Len(all) = 1 THEN all[1]
    ELSE GlobalDedup(BoundaryMerge(all, 1, <<>>))

\* .get("title", "") on an element that is no dict, or .lower() on a null
\* title, raises AttributeError. The one-chunk list is returned untouched;
\* otherwise step 2 reads the title of every section of every chunk.
MergeRaises(all) ==
    /\ Len(all) > 1
    /\ \E c \in 1..Len(all) : \E k \in 1..Len(all[c]) : all[c][k].shape # "dict"

-----------------------------------------------------------------------------
(* _chunk_content_blocks *)

RECURSIVE ChunkFrom(_, _, _)
ChunkFrom(bs, i, chunk_size) ==
    IF i > Len(bs) THEN <<>>
    ELSE LET hi == IF i + chunk_size - 1 < Len(bs) THEN i + chunk_size - 1 ELSE Len(bs)
         IN  <<SubSeq(bs, i, hi)>> \o ChunkFrom(bs, i + chunk_size, chunk_size)

\* _chunk_content_blocks keeping the first chunk only
ChunkContentBlocksFirstOnly(bs, chunk_size) ==
    IF Len(bs) <= chunk_size THEN <<bs>> ELSE <<SubSeq(bs, 1, chunk_size)>>

ChunkContentBlocks(bs, chunk_size) ==
    IF Len(bs) <= chunk_size THEN <<bs>> ELSE ChunkFrom(bs, 1, chunk_size)

-----------------------------------------------------------------------------
(* map_content_to_sections *)

None == [isNone |-> TRUE, list |-> <<>>]
Some(l) == [isNone |-> FALSE, list |-> l]

\* f"Section {n}"; the chunk numbers of the model have one digit
SectionN(n) == <<"S", "e", "c", "t", "i", "o", "n", " ", ToString(n)>>

\* The synthetic section of a chunk (chunk_idx counted from 0).
Fallback(cidx, chunk_blocks) ==
    <<Section(SectionN(cidx + 1),
              ListBody([i \in 1..Len(chunk_blocks) |-> TextItem(chunk_blocks[i])]))>>

SecA == Section(TSummary, ListBody(<<TextItem("worked at X")>>))
SecB == Section(TSummarySpaced, ListBody(<<TextItem("worked at Y")>>))

\* The JSON arrays the mapping service answers in the model.
ListAnswers == {<<>>, <<SecA>>, <<SecB>>, <<NonDictElement>>, <<NullTitleSection>>}

\* The logging loop over a parsed array: sec.get on an element that is no
\* dict raises AttributeError, title[:40] on a null title raises TypeError.
LogRaises(l) == \E k \in 1..Len(l) : l[k].shape # "dict"

\* The texts of the source document's blocks.
BlockTexts == <<"alpha", "beta", "gamma", "delta", "epsilon", "zeta", "eta">>

idleMap ==
    /\ chunks = <<>> /\ chunk_idx = 0 /\ attempt = 0
    /\ chunk_sections = None /\ last_error = "None"
    /\ tries = 0 /\ failed = 0 /\ last_answer = "none"

InitMap ==
    /\ pc = "start"
    /\ api_key_set \in BOOLEAN
    /\ has_sections \in BOOLEAN
    /\ \E n \in 0..MaxBlocks : blocks = SubSeq(BlockTexts, 1, n)
    /\ idleMap
    /\ all_sections = <<>>
    /\ merged_sections = <<>>
    /\ exc = "None"
    /\ remerged = <<>>
    /\ spliced = <<>>
    /\ idleAnalyze
    /\ idleRender
    /\ idleJob

\* lines 426-442: the two checks, then the split into chunks
Start ==
    /\ pc = "start"
    /\ IF ~api_key_set \/ ~has_sections
       THEN /\ pc' = "raised"
            /\ exc' = "AIMapperError"
            /\ UNCHANGED chunks
       ELSE /\ pc' = "chunk"
            /\ chunks' = ChunkContentBlocks(blocks, ChunkSize)
            /\ UNCHANGED exc
    /\ UNCHANGED <<api_key_set, has_sections, blocks, chunk_idx, attempt,
                   chunk_sections, last_error, all_sections, merged_sections,
                   tries, failed, last_answer, remerged, spliced>>
    /\ UNCHANGED <<anVars, rVars, jobVars>>

\* lines 445-455: the next chunk, or the end of the chunk loop
NextChunk ==
    /\ pc = "chunk"
    /\ IF chunk_idx < Len(chunks)
       THEN /\ pc' = "attempt"
            /\ last_error' = "None"
            /\ chunk_sections' = None
            /\ attempt' = 0
            /\ tries' = 0
            /\ failed' = 0
            /\ last_answer' = "none"
       ELSE /\ pc' = "merge"
            /\ UNCHANGED <<last_error, chunk_sections, attempt, tries, failed,
                           last_answer>>
    /\ UNCHANGED <<api_key_set, has_sections, blocks, chunks, chunk_idx,
                   all_sections, merged_sections, exc, remerged, spliced>>
    /\ UNCHANGED <<anVars, rVars, jobVars>>

\* What no attempt changes.
AttemptFrame ==
    /\ UNCHANGED <<api_key_set, has_sections, blocks, chunks, chunk_idx,
                   all_sections, merged_sections, exc, remerged, spliced>>
    /\ UNCHANGED <<anVars, rVars, jobVars>>

\* What follows an attempt that ended in an except clause.
AfterExcept ==
    /\ attempt' = attempt + 1
    /\ failed' = failed + 1
    /\ pc' = IF attempt + 1 > max_retries THEN "record" ELSE "attempt"

\* lines 510-515: the call raised (timeout or another API error), or the
\* answer had no content
AttemptApiError ==
    /\ pc = "attempt"
    /\ AttemptFrame
    /\ tries' = tries + 1
    /\ last_answer' = "exception"
    /\ last_error' = "GroqAPIError"
    /\ AfterExcept
    /\ UNCHANGED chunk_sections

\* lines 498-503: a pydantic ValidationError
AttemptValidationError ==
    /\ pc = "attempt"
    /\ AttemptFrame
    /\ tries' = tries + 1
    /\ last_answer' = "exception"
    /\ last_error' = "AIResponseValidationError"
    /\ AfterExcept
    /\ UNCHANGED chunk_sections

\* lines 482, 504-509: json.loads raises JSONDecodeError
AttemptNotJson ==
    /\ pc = "attempt"
    /\ AttemptFrame
    /\ tries' = tries + 1
    /\ last_answer' = "notjson"
    /\ last_error' = "AIResponseValidationError"
    /\ AfterExcept
    /\ UNCHANGED chunk_sections

\* lines 492-496: the answer is JSON but no array
AttemptNonList ==
    /\ pc = "attempt"
    /\ AttemptFrame
    /\ tries' = tries + 1
    /\ last_answer' = "nonlist"
    /\ chunk_sections' = Some(<<>>)
    /\ pc' = "record"
    /\ UNCHANGED <<attempt, failed, last_error>>

\* lines 484-491: the answer is a JSON array; it is kept before the logging
\* loop reads its elements
AttemptList ==
    /\ pc = "attempt"
    /\ AttemptFrame
    /\ \E sections_array \in ListAnswers :
          /\ tries' = tries + 1
          /\ chunk_sections' = Some(sections_array)
          /\ IF LogRaises(sections_array)
             THEN /\ last_answer' = "badlist"
                  /\ last_error' = "GroqAPIError"
                  /\ AfterExcept
             ELSE /\ last_answer' = "list"
                  /\ pc' = "record"
                  /\ UNCHANGED <<attempt, failed, last_error>>

\* lines 517-526: the fallback when chunk_sections is None, then the append
Record ==
    /\ pc = "record"
    /\ all_sections' = Append(all_sections,
                              IF chunk_sections.isNone
                              THEN Fallback(chunk_idx, chunks[chunk_idx + 1])
                              ELSE chunk_sections.list)
    /\ chunk_idx' = chunk_idx + 1
    /\ pc' = "chunk"
    /\ UNCHANGED <<api_key_set, has_sections, blocks, chunks, attempt,
                   chunk_sections, last_error, merged_sections, exc, tries,
                   failed, last_answer, remerged, spliced>>
    /\ UNCHANGED <<anVars, rVars, jobVars>>

\* lines 529-535: the merge, whose exception nothing catches
MergeCall ==
    /\ pc = "merge"
    /\ IF MergeRaises(all_sections)
       THEN /\ pc' = "raised"
            /\ exc' = "AttributeError"
            /\ UNCHANGED merged_sections
       ELSE /\ pc' = "returned"
            /\ merged_sections' = MergeSectionMappings(all_sections)
            /\ UNCHANGED exc
    /\ UNCHANGED <<api_key_set, has_sections, blocks, chunks, chunk_idx, attempt,
                   chunk_sections, last_error, all_sections, tries, failed,
                   last_answer, remerged, spliced>>
    /\ UNCHANGED <<anVars, rVars, jobVars>>

NextMap ==
    \/ Start
    \/ NextChunk
    \/ AttemptApiError
    \/ AttemptValidationError
    \/ AttemptNotJson
    \/ AttemptNonList
    \/ AttemptList
    \/ Record
    \/ MergeCall

SpecMap == InitMap /\ [][NextMap]_vars

-----------------------------------------------------------------------------
(* The merger on its own: every list of chunk results within the bounds *)

RECURSIVE SumTo(_, _)
SumTo(shape, n) == IF n = 0 THEN 0 ELSE shape[n] + SumTo(shape, n - 1)

\* The numbers of sections of the chunk results of one list.
Shapes ==
    {shape \in UNION {[1..n -> 0..MaxTotalSecs] : n \in 0..MaxChunks} :
        SumTo(shape, Len(shape)) <= MaxTotalSecs}

\* The list of chunk results that holds the sections of flat, cut as shape says.
Split(flat, shape) ==
    [c \in 1..Len(shape) |->
        SubSeq(flat, SumTo(shape, c - 1) + 1, SumTo(shape, c))]

InitMerge ==
    /\ pc = "merge"
    /\ api_key_set = TRUE
    /\ has_sections = TRUE
    /\ blocks = <<>>
    /\ idleMap
    /\ \E shape \in Shapes :
          \E flat \in [1..SumTo(shape, Len(shape)) -> Sections] :
             all_sections = Split(flat, shape)
    /\ merged_sections = <<>>
    /\ exc = "None"
    /\ remerged = <<>>
    /\ spliced = <<>>
    /\ idleAnalyze
    /\ idleRender
    /\ idleJob

\* merge(merge(x)): the merger applied to the one-chunk list of its result
MergeAgain ==
    /\ pc = "returned"
    /\ remerged' = MergeSectionMappings(<<merged_sections>>)
    /\ pc' = "remerged"
    /\ UNCHANGED <<api_key_set, has_sections, blocks, chunks, chunk_idx, attempt,
                   chunk_sections, last_error, all_sections, merged_sections, exc,
                   tries, failed, last_answer, spliced>>
    /\ UNCHANGED <<anVars, rVars, jobVars>>

\* [A, B] with equal normalized titles at the boundary
BoundaryPair ==
    /\ Len(all_sections) = 2
    /\ all_sections[1] # <<>>
    /\ all_sections[2] # <<>>
    /\ NormTitle(all_sections[1][Len(all_sections[1])].title)
         = NormTitle(all_sections[2][1].title)

\* A': A with its last section's body followed by the body of B's first
\* section, then B's remaining sections
APrime(A, B) ==
    [A EXCEPT ![Len(A)].body =
        ListBody(BodyAsList(A[Len(A)].body) \o BodyAsList(B[1].body))]
    \o Tail(B)

\* the merger applied to [A']
MergeSpliced ==
    /\ pc = "returned"
    /\ BoundaryPair
    /\ spliced' = MergeSectionMappings(<<APrime(all_sections[1], all_sections[2])>>)
    /\ pc' = "spliced"
    /\ UNCHANGED <<api_key_set, has_sections, blocks, chunks, chunk_idx, attempt,
                   chunk_sections, last_error, all_sections, merged_sections, exc,
                   tries, failed, last_answer, remerged>>
    /\ UNCHANGED <<anVars, rVars, jobVars>>

NextMerge == MergeCall \/ MergeAgain \/ MergeSpliced

SpecMerge == InitMerge /\ [][NextMerge]_vars

-----------------------------------------------------------------------------
(* Claims about the Chunk Merger, under SpecMerge *)

RECURSIVE Flatten(_)
Flatten(all) == IF all = <<>> THEN <<>> ELSE Head(all) \o Flatten(Tail(all))

\* The distinct normalized titles of secs, each at its first occurrence.
RECURSIVE FirstSeen(_, _)
FirstSeen(secs, acc) ==
    IF secs = <<>> THEN acc
    ELSE LET nt == NormTitle(Head(secs).title)
         IN  FirstSeen(Tail(secs),
                       IF \E i \in 1..Len(acc) : acc[i] = nt THEN acc
                       ELSE Append(acc, nt))

\* The bodies of the sections of secs titled nt (normalized), one after another.
RECURSIVE BodiesOf(_, _)
BodiesOf(secs, nt) ==
    IF secs = <<>> THEN <<>>
    ELSE (IF NormTitle(Head(secs).title) = nt THEN BodyAsList(Head(secs).body)
          ELSE <<>>)
         \o BodiesOf(Tail(secs), nt)

NormTitlesOf(secs) == [k \in 1..Len(secs) |-> NormTitle(secs[k].title)]

\* C1: the list the merger returns holds no two sections whose titles are
\* equal after lower-casing and trimming, for one chunk result or several.
C1_NoDuplicateTitles ==
    pc = "returned" =>
        \A i, j \in 1..Len(merged_sections) :
            i # j => NormTitle(merged_sections[i].title)
                     # NormTitle(merged_sections[j].title)

\* C2: the normalized titles of the result are the distinct normalized titles
\* of the input, read chunk by chunk, each at its first occurrence.
C2_FirstSeenOrder ==
    pc = "returned" =>
        NormTitlesOf(merged_sections) = FirstSeen(Flatten(all_sections), <<>>)

\* C3: the body of every section of the result is the concatenation of the
\* bodies of all input sections with the same normalized title, in chunk
\* order and then in order within the chunk.
C3_BodiesConcatenated ==
    pc = "returned" =>
        \A k \in 1..Len(merged_sections) :
            BodyAsList(merged_sections[k].body)
              = BodiesOf(Flatten(all_sections), NormTitle(merged_sections[k].title))

\* C4: merging is idempotent: the merger applied to the one-chunk list that
\* holds merge(x) returns merge(x).
C4_Idempotent == pc = "remerged" => remerged = merged_sections

\* C4 reached on several chunk results of which two sections were fused.
C4_Witness ==
    /\ pc = "remerged"
    /\ Len(all_sections) >= 2
    /\ Len(merged_sections) >= 1
    /\ Len(merged_sections) < Len(Flatten(all_sections))

\* C5: for A and B with equal normalized titles at the boundary, the merger
\* gives the same result on [A, B] and on [A'].
C5_BoundarySplice == pc = "spliced" => spliced = merged_sections

-----------------------------------------------------------------------------
(* Claims about map_content_to_sections, under SpecMap *)

\* C6: when every one of the max_retries + 1 attempts on a chunk failed, the
\* result recorded for the chunk is the one section "Section N" with one
\* text item per content block of the chunk, in block order.
C6_FallbackAfterAllAttemptsFail ==
    (pc = "chunk" /\ chunk_idx >= 1 /\ failed = max_retries + 1) =>
        all_sections[chunk_idx] = Fallback(chunk_idx - 1, chunks[chunk_idx])

\* C7: every chunk result handed to the merger holds at least one section.
C7_NoEmptyChunkResult ==
    pc = "merge" => \A c \in 1..Len(all_sections) : Len(all_sections[c]) >= 1

\* C8: an answer that is not JSON, or not a list of section objects, counts
\* as a failed attempt: the chunk is tried again while attempts remain, and
\* with the attempts used up the chunk gets the synthetic fallback section.
C8_InvalidAnswerRetriedThenFallback ==
    (pc = "chunk" /\ chunk_idx >= 1
        /\ last_answer \in {"notjson", "nonlist", "badlist"}) =>
        /\ tries = max_retries + 1
        /\ all_sections[chunk_idx] = Fallback(chunk_idx - 1, chunks[chunk_idx])

\* C9: with the API key configured and sections in the template analysis,
\* map_content_to_sections returns for every combination of outcomes of the
\* chunk calls: nothing propagates to the caller.
C9_NothingPropagates == (api_key_set /\ has_sections) => pc # "raised"

-----------------------------------------------------------------------------
(* _analyze_docx_sections *)

\* The names bound in analyzer.py that a raise statement can find: its imports
\* from app.core.exceptions (lines 12-15) and the builtin exceptions.
AnalyzerNames == {"ParsingError", "UnsupportedFileTypeError", "Exception",
                  "NameError"}

\* raise name(...): evaluating a name that is not bound raises NameError.
RaiseNamed(name) == IF name \in AnalyzerNames THEN name ELSE "NameError"

\* lines 221-222: except Exception as e: raise AnalysisError(...)
AnalyzeExcept ==
    /\ an_pc' = "raised"
    /\ an_exc' = RaiseNamed("AnalysisError")

total_paras == Len(paragraphs)

Min(a, b) == IF a < b THEN a ELSE b

\* lines 154-177: the indices (0-based) the body-style loop reads after the
\* heading at i: up to and including the first paragraph with text whose
\* style mentions neither "heading" nor "toc", within range(i+1, min(i+10, n))
IsBodyPara(p) ==
    /\ Strip(p.text) # <<>>
    /\ ~Contains(Lower(p.style), <<"h", "e", "a", "d", "i", "n", "g">>)
    /\ ~Contains(Lower(p.style), <<"t", "o", "c">>)

BodyRange(i) == (i + 1)..(Min(i + 10, total_paras) - 1)

BodyFound(i) == {b \in BodyRange(i) : IsBodyPara(paragraphs[b + 1])}

FirstBody(i) == CHOOSE b \in BodyFound(i) : \A c \in BodyFound(i) : b <= c

BodyRead(i) ==
    IF BodyFound(i) = {} THEN BodyRange(i)
    ELSE {b \in BodyRange(i) : b <= FirstBody(i)}

\* lines 141-142, 169-170: int(first_run.font.size.pt) of the paragraph at
\* index i; 0 stands for None, the value when no such paragraph was found or
\* its first run has no font size
FontSizeAt(i) ==
    IF i >= 0 /\ "font_pt" \in DOMAIN paragraphs[i + 1]
    THEN paragraphs[i + 1].font_pt
    ELSE 0

mapIdle ==
    /\ pc = "idle"
    /\ api_key_set = TRUE
    /\ has_sections = TRUE
    /\ blocks = <<>>
    /\ idleMap
    /\ all_sections = <<>>
    /\ merged_sections = <<>>
    /\ exc = "None"
    /\ remerged = <<>>
    /\ spliced = <<>>

\* InitAnalyze with safe_zone_end preset to the paragraph count
InitAnalyzeSafeZoneFull ==
    /\ mapIdle
    /\ idleRender
    /\ idleJob
    /\ an_pc = "open"
    /\ doc_opens \in BOOLEAN
    /\ paragraphs \in UNION {[1..n -> ParaPool] : n \in 0..MaxParas}
    /\ fault_at \in -1..(Len(paragraphs) - 1)
    /\ idx = 0
    /\ first_heading_idx = -1
    /\ heading_style_name = StyleHeading1
    /\ body_style_name = StyleNormal
    /\ safe_zone_end = Len(paragraphs)
    /\ template_dna = NoDNA
    /\ an_exc = "None"

InitAnalyze ==
    /\ mapIdle
    /\ idleRender
    /\ idleJob
    /\ an_pc = "open"
    /\ doc_opens \in BOOLEAN
    /\ paragraphs \in UNION {[1..n -> ParaPool] : n \in 0..MaxParas}
    /\ fault_at \in -1..(Len(paragraphs) - 1)
    /\ idx = 0
    /\ first_heading_idx = -1
    /\ heading_style_name = StyleHeading1
    /\ body_style_name = StyleNormal
    /\ safe_zone_end = 0
    /\ template_dna = NoDNA
    /\ an_exc = "None"

\* lines 99-121: the document is opened and the locals are set
AnalyzeOpen ==
    /\ an_pc = "open"
    /\ IF doc_opens
       THEN /\ an_pc' = "scan"
            /\ UNCHANGED an_exc
       ELSE AnalyzeExcept
    /\ UNCHANGED <<doc_opens, paragraphs, fault_at, idx, first_heading_idx,
                   heading_style_name, body_style_name, safe_zone_end,
                   template_dna>>
    /\ UNCHANGED <<mapVars, rVars, jobVars>>

\* lines 123-178: one iteration of the loop over doc.paragraphs
AnalyzeScan ==
    /\ an_pc = "scan"
    /\ idx < total_paras
    /\ LET para == paragraphs[idx + 1]
           style_lower == Lower(para.style)
       IN  IF fault_at = idx
           THEN /\ AnalyzeExcept
                /\ UNCHANGED <<idx, first_heading_idx, heading_style_name,
                               body_style_name, safe_zone_end>>
           ELSE IF Strip(para.text) = <<>>
           THEN /\ idx' = idx + 1
                /\ UNCHANGED <<an_pc, an_exc, first_heading_idx,
                               heading_style_name, body_style_name,
                               safe_zone_end>>
           ELSE IF Contains(style_lower, <<"h", "e", "a", "d", "i", "n", "g", " ", "1">>)
                   /\ first_heading_idx = -1
           THEN IF fault_at \in BodyRead(idx)
                THEN /\ AnalyzeExcept
                     /\ UNCHANGED <<idx, first_heading_idx, heading_style_name,
                                    body_style_name, safe_zone_end>>
                ELSE /\ first_heading_idx' = idx
                     /\ heading_style_name' = para.style
                     /\ safe_zone_end' = idx
                     /\ body_style_name' =
                            IF BodyFound(idx) = {} THEN body_style_name
                            ELSE paragraphs[FirstBody(idx) + 1].style
                     /\ an_pc' = "build"
                     /\ UNCHANGED <<idx, an_exc>>
           ELSE /\ idx' = idx + 1
                /\ UNCHANGED <<an_pc, an_exc, first_heading_idx,
                               heading_style_name, body_style_name,
                               safe_zone_end>>
    /\ UNCHANGED <<doc_opens, paragraphs, fault_at, template_dna>>
    /\ UNCHANGED <<mapVars, rVars, jobVars>>

\* line 123: the loop ends with no paragraph left
AnalyzeScanEnd ==
    /\ an_pc = "scan"
    /\ idx >= total_paras
    /\ an_pc' = "build"
    /\ UNCHANGED <<doc_opens, paragraphs, fault_at, idx, first_heading_idx,
                   heading_style_name, body_style_name, safe_zone_end,
                   template_dna, an_exc>>
    /\ UNCHANGED <<mapVars, rVars, jobVars>>

\* AnalyzeBuild with the paragraph count as safe zone of a template in which
\* no first heading was found
AnalyzeBuildKeepAll ==
    /\ an_pc = "build"
    /\ template_dna' =
          [heading_style_name |-> heading_style_name,
           heading_font_size |-> FontSizeAt(first_heading_idx),
           body_style_name |-> body_style_name,
           body_font_size |->
               FontSizeAt(IF first_heading_idx # -1
                             /\ BodyFound(first_heading_idx) # {}
                          THEN FirstBody(first_heading_idx) ELSE -1),
           safe_zone_end_idx |->
               IF first_heading_idx # -1 THEN safe_zone_end ELSE Len(paragraphs),
           first_content_section_idx |->
               IF first_heading_idx # -1 THEN first_heading_idx ELSE 0]
    /\ an_pc' = "returned"
    /\ UNCHANGED <<doc_opens, paragraphs, fault_at, idx, first_heading_idx,
                   heading_style_name, body_style_name, safe_zone_end, an_exc>>
    /\ UNCHANGED <<mapVars, rVars, jobVars>>

\* lines 180-220: the TemplateDNA and the TemplateAnalysis returned
AnalyzeBuild ==
    /\ an_pc = "build"
    /\ template_dna' =
          [heading_style_name |-> heading_style_name,
           heading_font_size |-> FontSizeAt(first_heading_idx),
           body_style_name |-> body_style_name,
           body_font_size |->
               FontSizeAt(IF first_heading_idx # -1
                             /\ BodyFound(first_heading_idx) # {}
                          THEN FirstBody(first_heading_idx) ELSE -1),
           safe_zone_end_idx |-> safe_zone_end,
           first_content_section_idx |->
               IF first_heading_idx # -1 THEN first_heading_idx ELSE 0]
    /\ an_pc' = "returned"
    /\ UNCHANGED <<doc_opens, paragraphs, fault_at, idx, first_heading_idx,
                   heading_style_name, body_style_name, safe_zone_end, an_exc>>
    /\ UNCHANGED <<mapVars, rVars, jobVars>>

NextAnalyze == AnalyzeOpen \/ AnalyzeScan \/ AnalyzeScanEnd \/ AnalyzeBuild

SpecAnalyze == InitAnalyze /\ [][NextAnalyze]_vars

-----------------------------------------------------------------------------
(* Claims about the Style DNA Extractor, under SpecAnalyze *)

\* C10: when the template cannot be opened, or an exception occurs while its
\* paragraphs are traversed, _analyze_docx_sections fails with an
\* AnalysisError and with no other exception type.
C10_FailsWithAnalysisError == an_pc = "raised" => an_exc = "AnalysisError"

\* the paragraphs of the template with a top-level heading style: the name of
\* the style matches "Heading 1" whatever the case (0-based indices)
TopLevelIdxs ==
    {i \in 0..(Len(paragraphs) - 1) :
        Contains(Lower(paragraphs[i + 1].style),
                 <<"h", "e", "a", "d", "i", "n", "g", " ", "1">>)}

FirstTopLevelIdx == CHOOSE i \in TopLevelIdxs : \A j \in TopLevelIdxs : i <= j

\* C11: for a template with at least one paragraph of a top-level heading
\* style, the profile returned has safe_zone_end_idx and
\* first_content_section_idx both equal to the index of the first such
\* paragraph in document order, and 0 <= safe_zone_end_idx <= paragraph count.
C11_SafeZoneEndsAtFirstHeading ==
    (an_pc = "returned" /\ TopLevelIdxs # {}) =>
        /\ template_dna.safe_zone_end_idx = FirstTopLevelIdx
        /\ template_dna.first_content_section_idx = FirstTopLevelIdx
        /\ 0 <= template_dna.safe_zone_end_idx
        /\ template_dna.safe_zone_end_idx <= Len(paragraphs)

\* C12 as stated: for a template in which no paragraph has a top-level heading
\* style, the profile returned has safe_zone_end_idx equal to the paragraph
\* count of the template.
C12_NoHeadingSafeZoneIsParagraphCount ==
    (an_pc = "returned" /\ TopLevelIdxs = {}) =>
        template_dna.safe_zone_end_idx = Len(paragraphs)

\* C12 amended: for a template in which no paragraph has a top-level heading
\* style, the profile returned has safe_zone_end_idx = 0 (and
\* first_content_section_idx = 0), whatever the paragraph count.
C12_NoHeadingSafeZoneIsZero ==
    (an_pc = "returned" /\ TopLevelIdxs = {}) =>
        /\ template_dna.safe_zone_end_idx = 0
        /\ template_dna.first_content_section_idx = 0

\* a profile was returned for a template of several paragraphs, none of them
\* with a top-level heading style
C12_Witness ==
    /\ an_pc = "returned"
    /\ TopLevelIdxs = {}
    /\ Len(paragraphs) >= 2
    /\ template_dna.safe_zone_end_idx = 0

-----------------------------------------------------------------------------
(* Texts of the renderer: the regular expressions of renderer.py *)

Digits == {"0", "1", "2", "3", "4", "5", "6", "7", "8", "9"}
DigitChars == <<"0", "1", "2", "3", "4", "5", "6", "7", "8", "9">>

\* [a-zA-Z]
Letters == {UpperLetters[i] : i \in 1..Len(UpperLetters)}
           \cup {LowerLetters[i] : i \in 1..Len(LowerLetters)}

\* \w
WordChars == Letters \cup Digits \cup {"_"}

\* str(n) for n >= 0
RECURSIVE IntText(_)
IntText(n) ==
    IF n < 10 THEN <<DigitChars[n + 1]>>
    ELSE IntText(n \div 10) \o <<DigitChars[(n % 10) + 1]>>

\* t[n:]
Drop(t, n) == SubSeq(t, n + 1, Len(t))

\* length of the longest prefix of t made of characters of S: ^[S]*
RECURSIVE SpanLen(_, _)
SpanLen(t, S) ==
    IF t # <<>> /\ Head(t) \in S THEN 1 + SpanLen(Tail(t), S) ELSE 0

\* t.find(sub): 0-based index of the first occurrence, -1 when there is none
Find(t, sub) ==
    IF Contains(t, sub)
    THEN (CHOOSE i \in 0..(Len(t) - Len(sub)) :
              /\ SubSeq(t, i + 1, i + Len(sub)) = sub
              /\ \A j \in 0..(i - 1) : SubSeq(t, j + 1, j + Len(sub)) # sub)
    ELSE -1

\* length of the match of ^\d+[\.\)]\s* at the start of t, 0 when no match
NumberingLen(t) ==
    LET d == SpanLen(t, Digits)
    IN  IF d >= 1 /\ Len(t) > d /\ t[d + 1] \in {".", ")"}
        THEN d + 1 + SpanLen(Drop(t, d + 1), Whitespace)
        ELSE 0

\* re.sub(r'^\d+[\.\)]\s*', '', new_title)
StripNumbering(t) == Drop(t, NumberingLen(t))

\* re.match(r'^\d+[\.\)]\s+\w+', text)
HasLeadingNumber(text) ==
    LET d == SpanLen(text, Digits)
        w == SpanLen(Drop(text, d + 1), Whitespace)
    IN  /\ d >= 1
        /\ Len(text) > d
        /\ text[d + 1] \in {".", ")"}
        /\ w >= 1
        /\ Len(text) > d + 1 + w
        /\ text[d + 2 + w] \in WordChars

\* re.search(r'\d+\s*$', text)
EndsWithNumber(text) ==
    LET r == RStrip(text) IN r # <<>> /\ r[Len(r)] \in Digits

\* the bullet glyph U+2022 and the one dot leader U+2024, written in ASCII
BulletGlyph == "@"
OneDotLeader == ":"

\* the characters of the class [-*(U+2022)\d.)\s]
MarkerChars == {"-", "*", BulletGlyph, ".", ")"} \cup Digits \cup Whitespace

\* re.sub(r'^[-*(U+2022)\d.)\s]+', '', content).lower(), content stripped
Normalized(content) ==
    LET c == Strip(content) IN Lower(Drop(c, SpanLen(c, MarkerChars)))

\* re.sub of one pattern of clean_bullet_text: ^[first]\s* with first a set of
\* characters, or ^\d+\.\s*
SubMarker(t, first) ==
    IF t # <<>> /\ Head(t) \in first
    THEN Drop(t, 1 + SpanLen(Tail(t), Whitespace))
    ELSE t

SubNumbered(t) ==
    LET d == SpanLen(t, Digits)
    IN  IF d >= 1 /\ Len(t) > d /\ t[d + 1] = "."
        THEN Drop(t, d + 1 + SpanLen(Drop(t, d + 1), Whitespace))
        ELSE t

SubLettered(t, mark) ==
    IF Len(t) >= 2 /\ t[1] \in Letters /\ t[2] = mark
    THEN Drop(t, 2 + SpanLen(Drop(t, 2), Whitespace))
    ELSE t

clean_bullet_text(text) ==
    Strip(SubLettered(SubLettered(SubNumbered(
              SubMarker(Strip(text), {"-", "*", BulletGlyph})), "."), ")"))

-----------------------------------------------------------------------------
(* _detect_cover_title and _update_safe_zone *)

\* A paragraph as the renderer reads it: text, style name, and of its first
\* run the font size in points (0 when run.font.size is None), bold, and
\* whether the paragraph is centred.
RPara(text, style, font_pt, bold, centered) ==
    [text |-> text, style |-> style, font_pt |-> font_pt, bold |-> bold,
     centered |-> centered]

\* lines 59-96: the score of the paragraph at index i
CoverScore(para, i) ==
    LET text == Strip(para.text)
        style_name == Lower(para.style)
    IN  (IF Contains(style_name, <<"t", "i", "t", "l", "e">>) THEN 100 ELSE 0)
        + (IF Contains(style_name, <<"c", "o", "v", "e", "r">>) THEN 80 ELSE 0)
        + (IF Contains(style_name, <<"h", "e", "a", "d", "i", "n", "g">>)
              /\ Contains(style_name, <<"1">>) THEN 50 ELSE 0)
        + (IF para.font_pt > 0 THEN Min(para.font_pt, 50) ELSE 0)
        + (IF para.bold THEN 20 ELSE 0)
        + (IF para.centered THEN 15 ELSE 0)
        + (10 - i) * 2
        - (IF Len(text) > 150 THEN 30 ELSE 0)

\* lines 49-57: the indices that become candidates
CoverCandidates(d, sze) ==
    {i \in 0..(Min(10, sze) - 1) : Len(Strip(d[i + 1].text)) >= 5}

\* lines 101-111: the first candidate of the highest score if that score is
\* above 20 (list.sort is stable), -1 for (None, None)
DetectCoverTitleAtLeast20(d, sze) ==
    LET cands == CoverCandidates(d, sze)
        best == CHOOSE i \in cands : \A j \in cands :
                    \/ CoverScore(d[i + 1], i) > CoverScore(d[j + 1], j)
                    \/ /\ CoverScore(d[i + 1], i) = CoverScore(d[j + 1], j)
                       /\ i <= j
    IN  IF cands # {} /\ CoverScore(d[best + 1], best) >= 20 THEN best ELSE -1

DetectCoverTitle(d, sze) ==
    LET cands == CoverCandidates(d, sze)
        best == CHOOSE i \in cands : \A j \in cands :
                    \/ CoverScore(d[i + 1], i) > CoverScore(d[j + 1], j)
                    \/ /\ CoverScore(d[i + 1], i) = CoverScore(d[j + 1], j)
                       /\ i <= j
    IN  IF cands # {} /\ CoverScore(d[best + 1], best) > 20 THEN best ELSE -1

\* runs[0].text = text and the other runs emptied, or add_run(text)
SetText(d, i, text) == [d EXCEPT ![i + 1].text = text]

\* a title is None or Some(text); bool(title)
Truthy(title) == ~title.isNone /\ title.list # <<>>

\* lines 162-188, one paragraph: "heading", "entry" or "other"
TocClass(para, i, toc_start) ==
    LET text == Strip(para.text)
        style_name == Lower(para.style)
    IN  IF Contains(Lower(text), <<"t", "a", "b", "l", "e", " ", "o", "f", " ",
                                   "c", "o", "n", "t", "e", "n", "t", "s">>)
           \/ Contains(Lower(text), <<"c", "o", "n", "t", "e", "n", "t", "s">>)
        THEN "heading"
        ELSE IF Contains(style_name, <<"t", "o", "c">>) /\ i > toc_start
        THEN "entry"
        ELSE IF /\ toc_start >= 0
                /\ text # <<>>
                /\ \/ Contains(para.text, <<"\t">>)
                   \/ Contains(text, <<".", ".", ".">>)
                   \/ Contains(text, <<OneDotLeader, OneDotLeader, OneDotLeader>>)
                   \/ HasLeadingNumber(text)
                   \/ EndsWithNumber(text)
        THEN "entry"
        ELSE "other"

\* lines 154-188: the loop over range(safe_zone_end), from index i on
RECURSIVE FindTocEntries(_, _, _, _, _)
FindTocEntries(d, sze, i, toc_start, entries) ==
    IF i >= sze THEN entries
    ELSE LET class == TocClass(d[i + 1], i, toc_start)
         IN  FindTocEntries(d, sze, i + 1,
                            IF class = "heading" THEN i ELSE toc_start,
                            IF class = "entry" THEN Append(entries, i)
                            ELSE entries)

\* lines 212-231: the new text of the i-th entry (i from 0) whose text is text
TocEntryText(text, i, new_title) ==
    LET dot_start == Find(text, <<".", ".">>)
        tab_idx == Find(text, <<"\t">>)
        at_dots == IF dot_start >= 0 THEN Min(Len(text), dot_start) ELSE Len(text)
        split_idx == IF tab_idx > 0 THEN Min(at_dots, tab_idx) ELSE at_dots
        trailing_part == IF split_idx < Len(text) THEN Drop(text, split_idx)
                         ELSE <<>>
    IN  IntText(i + 1) \o <<".", " ">> \o StripNumbering(new_title)
        \o trailing_part

\* lines 193-248: the loop over toc_entries, from the i-th entry on; a title
\* that is None makes re.sub raise, which the loop logs and passes over
RECURSIVE UpdateTocEntries(_, _, _, _)
UpdateTocEntries(d, entries, section_titles, i) ==
    IF i >= Len(entries) \/ i >= Len(section_titles) THEN d
    ELSE LET para_idx == entries[i + 1]
             new_title == section_titles[i + 1]
         IN  IF new_title.isNone
             THEN UpdateTocEntries(d, entries, section_titles, i + 1)
             ELSE UpdateTocEntries(
                      SetText(d, para_idx,
                              TocEntryText(d[para_idx + 1].text, i, new_title.list)),
                      entries, section_titles, i + 1)

\* what python-docx does during one front-matter update: every operation
\* succeeds ("none"), the assignment of the cover title's run text raises
\* (line 141, caught at line 150), or the read of the first paragraph of the
\* TOC scan raises (line 158, caught at line 342 of the caller)
FrontFaults == {"none", "cover", "scan"}

\* _update_safe_zone(doc, template_dna, section_titles, document_title) under
\* try/except (lines 340-343): the document it leaves, with the index of the
\* cover title, the TOC entries, and whether a warning "Failed to update ..."
\* was logged (lines 151, 248, 343)
UpdateSafeZone(d, sze, section_titles, document_title, fault) ==
    LET title == IF ~Truthy(document_title) /\ section_titles # <<>>
                 THEN section_titles[1] ELSE document_title
        found == IF Truthy(title) THEN DetectCoverTitle(d, sze) ELSE -1
        cover_raises == fault = "cover" /\ found >= 0
        d1 == IF found >= 0 /\ ~cover_raises THEN SetText(d, found, title.list)
              ELSE d
        scan_raises == fault = "scan" /\ sze > 0
        entries == IF scan_raises THEN <<>>
                   ELSE FindTocEntries(d1, sze, 0, -1, <<>>)
    IN  [doc |-> UpdateTocEntries(d1, entries, section_titles, 0),
         title_idx |-> found,
         toc_entries |-> entries,
         warned |-> \/ cover_raises
                    \/ scan_raises
                    \/ \E i \in 1..Min(Len(entries), Len(section_titles)) :
                           section_titles[i].isNone]

-----------------------------------------------------------------------------
(* _render_docx_sections *)

StyleListBullet == <<"L", "i", "s", "t", " ", "B", "u", "l", "l", "e", "t">>
StyleTitle == <<"T", "i", "t", "l", "e">>
StyleCover == <<"C", "o", "v", "e", "r">>
StyleHeading1Custom == <<"H", "e", "a", "d", "i", "n", "g", "1">>

\* TemplateDNA.subheading_style_name and bullet_style_name: the analyzer
\* leaves them at their defaults
subheading_style_name == StyleHeading2
bullet_style_name == StyleListBullet

\* a dict with no "title" key
NoTitleSection(b) == [shape |-> "notitle", title |-> <<>>, body |-> b]

Item(type, content) == [type |-> type, content |-> content]

\* sec.get("title", f"Section {i+1}") for the i-th section (i from 0)
SectionTitle(sec, i) ==
    IF sec.shape = "nulltitle" THEN None
    ELSE IF sec.shape = "notitle"
    THEN Some(<<"S", "e", "c", "t", "i", "o", "n", " ">> \o IntText(i + 1))
    ELSE Some(sec.title)

\* line 334
SectionTitles(sd) == [i \in 1..Len(sd) |-> SectionTitle(sd[i], i - 1)]

\* lines 367-378 and 394: content_groups[normalized]
ContentGroup(body, normalized) ==
    SelectSeq(body, LAMBDA it : /\ Strip(it.content) # <<>>
                                /\ Normalized(it.content) = normalized)

\* next(c for c in candidates if c.get("type") == type)
FirstOfType(candidates, type) ==
    candidates[CHOOSE k \in 1..Len(candidates) :
                   /\ candidates[k].type = type
                   /\ \A m \in 1..(k - 1) : candidates[m].type # type]

\* lines 397-407
BestItem(body, item) ==
    LET candidates == ContentGroup(body, Normalized(item.content))
    IN  IF \E k \in 1..Len(candidates) : candidates[k].type = "bullet"
        THEN FirstOfType(candidates, "bullet")
        ELSE IF \E k \in 1..Len(candidates) : candidates[k].type = "subheading"
        THEN FirstOfType(candidates, "subheading")
        ELSE item

\* lines 381-412: the loop over body from the j-th item (j from 1) on
RECURSIVE DedupFrom(_, _, _)
DedupFrom(body, j, seen_normalized) ==
    IF j > Len(body) THEN <<>>
    ELSE LET normalized == Normalized(body[j].content)
         IN  IF normalized = <<>> \/ normalized \in seen_normalized
             THEN DedupFrom(body, j + 1, seen_normalized)
             ELSE <<BestItem(body, body[j])>>
                  \o DedupFrom(body, j + 1, seen_normalized \cup {normalized})

DedupBody(body) == DedupFrom(body, 1, {})

\* doc.styles[name] finds the style: it is one the template defines. Normal
\* is taken to be defined in every template.
StyleExists(name) ==
    \/ name = StyleNormal
    \/ name \in styles
    \/ \E k \in 1..Len(paragraphs) : paragraphs[k].style = name

\* lines 436-516: the paragraph added for one item of the deduplicated body.
\* The profile has no subheading_font_size and no bullet_font_size (the
\* analyzer sets neither), so a subheading gets int(body_font_size * 1.1) and
\* a bullet body_font_size when the profile has a body font size.
ItemPara(item) ==
    LET body_font_size == template_dna.body_font_size
        subheading_size == IF body_font_size > 0
                           THEN (body_font_size * 11) \div 10 ELSE 0
    IN  IF item.type = "subheading"
        THEN IF StyleExists(subheading_style_name)
             THEN RPara(item.content, subheading_style_name, subheading_size,
                        FALSE, FALSE)
             ELSE RPara(item.content, template_dna.body_style_name,
                        subheading_size, TRUE, FALSE)
        ELSE IF item.type = "bullet"
        THEN IF StyleExists(bullet_style_name)
             THEN RPara(clean_bullet_text(item.content), bullet_style_name,
                        body_font_size, FALSE, FALSE)
             ELSE RPara(<<BulletGlyph, " ">> \o clean_bullet_text(item.content),
                        template_dna.body_style_name, body_font_size, FALSE,
                        FALSE)
        ELSE RPara(item.content, template_dna.body_style_name, body_font_size,
                   FALSE, FALSE)

\* doc.add_paragraph()
BlankPara == RPara(<<>>, StyleNormal, 0, FALSE, FALSE)

\* SectionParas with a blank paragraph after the last section too
SectionParasBlankAfterEach(section, i, n) ==
    LET body == DedupBody(BodyAsList(section.body))
    IN  <<RPara(SectionTitle(section, i).list, template_dna.heading_style_name,
                template_dna.heading_font_size, FALSE, FALSE)>>
        \o [k \in 1..Len(body) |-> ItemPara(body[k])]
        \o <<BlankPara>>

\* lines 413-520: the paragraphs added for the i-th section (i from 0) of n
SectionParas(section, i, n) ==
    LET body == DedupBody(BodyAsList(section.body))
    IN  <<RPara(SectionTitle(section, i).list, template_dna.heading_style_name,
                template_dna.heading_font_size, FALSE, FALSE)>>
        \o [k \in 1..Len(body) |-> ItemPara(body[k])]
        \o (IF i < n - 1 THEN <<BlankPara>> ELSE <<>>)

\* the except clause of lines 528-530
RenderExcept ==
    /\ r_pc' = "raised"
    /\ r_exc' = "RenderingError"

\* lines 307-337: the template is opened again and the sections are taken
\* from mapping.mappings, here m; with no sections and no "sec_all" the raise
\* of line 329 ends in the except clause
RenderOpen(m) ==
    /\ r_pc = "open"
    /\ an_pc = "returned"
    /\ mappings' = m
    /\ doc' = paragraphs
    /\ IF m.sections # <<>>
       THEN /\ sections_data' = m.sections
            /\ r_pc' = "front"
            /\ UNCHANGED r_exc
       ELSE IF m.has_sec_all
       THEN /\ sections_data' =
                   <<Section(<<"D", "o", "c", "u", "m", "e", "n", "t">>,
                             StrBody(<<"A", "l", "l", " ", "c", "o", "n", "t", "e", "n", "t">>))>>
            /\ r_pc' = "front"
            /\ UNCHANGED r_exc
       ELSE /\ RenderExcept
            /\ UNCHANGED sections_data
    /\ UNCHANGED <<styles, title_idx, toc_entries, front_warned, sec_i,
                   deduplicated_body, saved>>
    /\ UNCHANGED <<mapVars, anVars, jobVars>>

\* lines 339-343: step 0, the call of _update_safe_zone; whatever it raises
\* is logged and the render goes on
RenderUpdateSafeZone(fault) ==
    /\ r_pc = "front"
    /\ LET section_titles == SectionTitles(sections_data)
           updated == UpdateSafeZone(doc, template_dna.safe_zone_end_idx,
                                     section_titles, section_titles[1], fault)
       IN  /\ doc' = updated.doc
           /\ title_idx' = updated.title_idx
           /\ toc_entries' = updated.toc_entries
           /\ front_warned' = updated.warned
    /\ r_pc' = "delete"
    /\ UNCHANGED <<mappings, styles, sections_data, sec_i, deduplicated_body,
                   r_exc, saved>>
    /\ UNCHANGED <<mapVars, anVars, jobVars>>

\* lines 345-352 removing one paragraph too many
RenderDeleteOldFromBefore ==
    /\ r_pc = "delete"
    /\ doc' = SubSeq(doc, 1, template_dna.safe_zone_end_idx - 1)
    /\ r_pc' = "rebuild"
    /\ UNCHANGED <<mappings, styles, sections_data, title_idx, toc_entries,
                   front_warned, sec_i, deduplicated_body, r_exc, saved>>
    /\ UNCHANGED <<mapVars, anVars, jobVars>>

\* lines 345-352: step 1, every paragraph from safe_zone_end_idx on is removed
RenderDeleteOld ==
    /\ r_pc = "delete"
    /\ doc' = SubSeq(doc, 1, template_dna.safe_zone_end_idx)
    /\ r_pc' = "rebuild"
    /\ UNCHANGED <<mappings, styles, sections_data, title_idx, toc_entries,
                   front_warned, sec_i, deduplicated_body, r_exc, saved>>
    /\ UNCHANGED <<mapVars, anVars, jobVars>>

\* lines 355-520: step 2, one iteration of the loop over sections_data. A
\* title that is None raises at line 413 (title[:40]), a heading style the
\* template does not define at line 416.
RenderSection ==
    /\ r_pc = "rebuild"
    /\ sec_i < Len(sections_data)
    /\ LET section == sections_data[sec_i + 1]
       IN  /\ deduplicated_body' = DedupBody(BodyAsList(section.body))
           /\ IF \/ SectionTitle(section, sec_i).isNone
                 \/ ~StyleExists(template_dna.heading_style_name)
              THEN /\ RenderExcept
                   /\ UNCHANGED <<doc, sec_i>>
              ELSE /\ doc' = doc \o SectionParas(section, sec_i,
                                                 Len(sections_data))
                   /\ sec_i' = sec_i + 1
                   /\ UNCHANGED <<r_pc, r_exc>>
    /\ UNCHANGED <<mappings, styles, sections_data, title_idx, toc_entries,
                   front_warned, saved>>
    /\ UNCHANGED <<mapVars, anVars, jobVars>>

\* lines 522-526: the document is saved and output_path returned
RenderSave ==
    /\ r_pc = "rebuild"
    /\ sec_i >= Len(sections_data)
    /\ saved' = doc
    /\ r_pc' = "returned"
    /\ UNCHANGED <<mappings, styles, doc, sections_data, title_idx, toc_entries,
                   front_warned, sec_i, deduplicated_body, r_exc>>
    /\ UNCHANGED <<mapVars, anVars, jobVars>>

-----------------------------------------------------------------------------
(* The renders of the model *)

\* most paragraphs of the front matter of a template
MaxFront == 3
\* most sections of a mapping
MaxSecs == 2
\* most items of the body of a section
MaxItems == 3

\* a text of more than 150 characters
LongText == [k \in 1..151 |-> "x"]

\* the paragraphs front matters are made of
FrontPool == {RPara(<<"R", "e", "p", "o", "r", "t">>, StyleTitle, 28, TRUE, TRUE),
              RPara(<<"D", "r", "a", "f", "t", " ", "2">>, StyleNormal, 0, FALSE, FALSE),
              RPara(LongText, StyleNormal, 11, FALSE, FALSE),
              RPara(<<"C", "o", "n", "t", "e", "n", "t", "s">>, StyleNormal, 0, FALSE, FALSE),
              RPara(<<"I", "n", "t", "r", "o", "\t", "1">>, StyleNormal, 0, FALSE, FALSE),
              RPara(<<"S", "c", "o", "p", "e", ".", ".", ".", "2">>, StyleNormal, 0, FALSE, FALSE),
              RPara(<<"1", ".", " ", "P", "l", "a", "n", "s">>, StyleNormal, 0, FALSE, FALSE),
              RPara(<<"G", "o", "a", "l", "s">>, StyleTOC1, 0, FALSE, FALSE),
              RPara(<<"A", "n", "n", "u", "a", "l">>, StyleHeading1Custom, 60, FALSE, FALSE),
              RPara(<<"A", "c", "m", "e">>, StyleCover, 60, TRUE, TRUE),
              RPara(<<"A", "c", "m", "e", " ", "C", "o", "r", "p">>, StyleCover, 0, FALSE, TRUE)}

\* empty paragraphs above the front matter, so that it lies across index 10
PadParas == [k \in 1..9 |-> RPara(<<>>, StyleNormal, 0, FALSE, FALSE)]

\* the first heading of a template and the old content under it
OldContent == <<RPara(<<"I", "n", "t", "r", "o">>, StyleHeading1, 16, TRUE, FALSE),
                RPara(<<"O", "l", "d", " ", "t", "e", "x", "t">>, StyleBodyText, 11, FALSE, FALSE)>>

TOverview == <<"O", "v", "e", "r", "v", "i", "e", "w">>
TRisks == <<"2", ")", " ", "R", "i", "s", "k", "s">>

FrontSections == {Section(TOverview, ListBody(<<>>)),
                  Section(TRisks, ListBody(<<>>))}

\* the analysis of the template has not begun, no render is under way
startRender ==
    /\ mapIdle
    /\ an_pc = "open"
    /\ fault_at = -1
    /\ idx = 0
    /\ first_heading_idx = -1
    /\ heading_style_name = StyleHeading1
    /\ body_style_name = StyleNormal
    /\ safe_zone_end = 0
    /\ template_dna = NoDNA
    /\ an_exc = "None"
    /\ r_pc = "open"
    /\ doc = <<>>
    /\ sections_data = <<>>
    /\ title_idx = -1
    /\ toc_entries = <<>>
    /\ front_warned = FALSE
    /\ sec_i = 0
    /\ deduplicated_body = <<>>
    /\ r_exc = "None"
    /\ saved = <<>>
    /\ idleJob

\* the mappings of the front-matter renders: their sections differ by title
FrontMappings ==
    {[sections |-> secs, has_sec_all |-> FALSE] :
        secs \in UNION {[1..n -> FrontSections] : n \in 0..MaxSecs}
                 \cup {<<NullTitleSection>>}}

\* templates with a front matter
InitFront ==
    /\ startRender
    /\ doc_opens = TRUE
    /\ mappings = [sections |-> <<>>, has_sec_all |-> FALSE]
    /\ \E shape \in {<<<<>>, <<>>>>, <<<<>>, OldContent>>, <<PadParas, OldContent>>} :
       \E front \in UNION {[1..n -> FrontPool] : n \in 0..MaxFront} :
           paragraphs = shape[1] \o front \o shape[2]
    /\ styles = {StyleHeading1, StyleHeading2, StyleListBullet}

\* analyze_template, then render_document with its analysis (endpoints.py)
NextFront ==
    \/ AnalyzeOpen \/ AnalyzeScan \/ AnalyzeScanEnd \/ AnalyzeBuild
    \/ \E m \in FrontMappings : RenderOpen(m)
    \/ RenderUpdateSafeZone("none")
    \/ RenderDeleteOld \/ RenderSection \/ RenderSave

SpecFront == InitFront /\ [][NextFront]_vars

\* the paragraphs the templates of the body renders are made of
RebuildPool == {RPara(<<"O", "l", "d", " ", "t", "e", "x", "t">>, StyleBodyText, 11, FALSE, FALSE),
                RPara(<<"N", "o", "t", "e", "s">>, StyleBodyText, 9, FALSE, FALSE),
                RPara(<<"C", "h", "a", "p", "t", "e", "r">>, StyleHeading1, 16, TRUE, FALSE)}

\* the items bodies are made of
ItemPool == {Item("bullet", <<"-", " ", "L", "a", "u", "n", "c", "h", "e", "d", " ", "p", "r", "o", "d", "u", "c", "t">>),
             Item("text", <<"L", "a", "u", "n", "c", "h", "e", "d", " ", "p", "r", "o", "d", "u", "c", "t">>),
             Item("subheading", <<"L", "A", "U", "N", "C", "H", "E", "D", " ", "P", "R", "O", "D", "U", "C", "T">>),
             Item("bullet", <<"1", ".", " ", "-", " ", "S", "h", "i", "p", "p", "e", "d">>),
             Item("text", <<"2", "0", "2", "4">>),
             Item("text", <<" ", " ">>)}

\* one section with any body of the pool
RichSections ==
    {Section(TOverview, ListBody(b)) :
        b \in UNION {[1..n -> ItemPool] : n \in 0..MaxItems}}

PlainSections ==
    {Section(TRisks, ListBody(<<Item("text", <<"L", "a", "u", "n", "c", "h", "e", "d", " ", "p", "r", "o", "d", "u", "c", "t">>)>>)),
     NoTitleSection(StrBody(<<"P", "l", "a", "i", "n", " ", "b", "o", "d", "y">>)),
     NullTitleSection}

\* the mappings of the body renders
RebuildMappings ==
    {[sections |-> secs, has_sec_all |-> FALSE] :
        secs \in UNION {[1..n -> PlainSections] : n \in 0..MaxSecs}
                 \cup {<<sec>> : sec \in RichSections}}
    \cup {[sections |-> <<>>, has_sec_all |-> TRUE]}

\* small templates, with and without a heading, and the styles they define
InitRebuild ==
    /\ startRender
    /\ doc_opens \in BOOLEAN
    /\ mappings = [sections |-> <<>>, has_sec_all |-> FALSE]
    /\ paragraphs \in UNION {[1..n -> RebuildPool] : n \in 0..MaxParas - 1}
    /\ styles \in SUBSET {StyleHeading1, StyleHeading2, StyleListBullet}

NextRebuild ==
    \/ AnalyzeOpen \/ AnalyzeScan \/ AnalyzeScanEnd \/ AnalyzeBuild
    \/ \E m \in RebuildMappings : RenderOpen(m)
    \/ \E fault \in FrontFaults : RenderUpdateSafeZone(fault)
    \/ RenderDeleteOld \/ RenderSection \/ RenderSave

SpecRebuild == InitRebuild /\ [][NextRebuild]_vars

-----------------------------------------------------------------------------
(* process_documents, cleanup_job and download_document (endpoints.py) *)

\* settings.supported_extensions
supported_extensions == {".docx", ".pdf", ".pptx"}

\* cleanup_job(job_id): the job directory afterwards
cleanupJobKeepsFiles(dir) == dir

cleanup_job(dir) ==
    IF dir.exists THEN [exists |-> FALSE, files |-> {}] ELSE dir

\* status of the HTTPException the except clauses of lines 196-217 raise for
\* an exception of class e; an HTTPException is raised again as it is
StatusOf(e) ==
    IF e \in {"PlaceholderNotFoundError", "UnsupportedFileTypeError",
              "HTTPException400"}
    THEN 400
    ELSE 500

\* lines 196-217: each except clause calls cleanup_job(job_id) and raises;
\* dir is the job directory as the failed step left it
JobFail(e, step, dir) ==
    /\ job_dir' = cleanup_job(dir)
    /\ response' = [status |-> StatusOf(e), step |-> step, filename |-> ""]
    /\ job_pc' = "responded"

\* lines 132-134: validate_file of both uploads; a file is given here by the
\* suffix of its name, "" when it has no name
JobValidate ==
    /\ job_pc = "validate"
    /\ IF \A filename \in {request.normal, request.target} :
             filename # "" /\ filename \in supported_extensions
       THEN /\ job_pc' = "save"
            /\ UNCHANGED <<job_dir, response>>
       ELSE JobFail("HTTPException400", "validate", job_dir)
    /\ UNCHANGED <<request, served>>
    /\ UNCHANGED <<mapVars, anVars, rVars>>

\* lines 136-138: save_upload of both files; a write may raise with none or
\* one of the files in the directory
JobSaveUploads ==
    /\ job_pc = "save"
    /\ \/ /\ job_dir' = [exists |-> TRUE, files |-> {"source", "template"}]
          /\ job_pc' = "extract"
          /\ UNCHANGED response
       \/ \E written \in {{}, {"source"}} :
             JobFail("OSError", "save", [exists |-> TRUE, files |-> written])
    /\ UNCHANGED <<request, served>>
    /\ UNCHANGED <<mapVars, anVars, rVars>>

\* lines 140-147: extract_content, and the HTTPException for no blocks
JobExtract ==
    /\ job_pc = "extract"
    /\ \/ /\ job_pc' = "analyze"
          /\ UNCHANGED <<job_dir, response>>
       \/ \E e \in {"ParsingError", "HTTPException400"} :
             JobFail(e, "extract", job_dir)
    /\ UNCHANGED <<request, served>>
    /\ UNCHANGED <<mapVars, anVars, rVars>>

\* line 151: analyze_template; a DOCX template that fails leaves with a
\* NameError (AnalysisError is not imported in analyzer.py), the others
\* with a ParsingError
JobAnalyze ==
    /\ job_pc = "analyze"
    /\ \/ /\ job_pc' = "map"
          /\ UNCHANGED <<job_dir, response>>
       \/ JobFail(IF request.target = ".docx" THEN "NameError"
                  ELSE "ParsingError", "analyze", job_dir)
    /\ UNCHANGED <<request, served>>
    /\ UNCHANGED <<mapVars, anVars, rVars>>

\* lines 154-157: map_content_to_placeholders
JobMap ==
    /\ job_pc = "map"
    /\ \/ /\ job_pc' = "render"
          /\ UNCHANGED <<job_dir, response>>
       \/ JobFail("AIMapperError", "map", job_dir)
    /\ UNCHANGED <<request, served>>
    /\ UNCHANGED <<mapVars, anVars, rVars>>

\* lines 160-168: render_document writes the output file, or raises: for a
\* PDF template UnsupportedFileTypeError, otherwise RenderingError, with or
\* without a file that doc.save began to write
JobRender ==
    /\ job_pc = "render"
    /\ IF request.target = ".pdf"
       THEN JobFail("UnsupportedFileTypeError", "render", job_dir)
       ELSE \/ /\ job_dir' = [job_dir EXCEPT !.files = @ \cup {"output"}]
               /\ job_pc' = "convert"
               /\ UNCHANGED response
            \/ \E partial \in {{}, {"output"}} :
                  JobFail("RenderingError", "render",
                          [job_dir EXCEPT !.files = @ \cup partial])
    /\ UNCHANGED <<request, served>>
    /\ UNCHANGED <<mapVars, anVars, rVars>>

\* lines 170-194: step 5 and the answer; a failed conversion is raised again
\* as HTTPException(500)
JobConvert ==
    /\ job_pc = "convert"
    /\ IF request.output_format = "pdf"
       THEN \/ /\ job_dir' = [job_dir EXCEPT !.files = @ \cup {"pdf"}]
               /\ response' = [status |-> 200, step |-> "", filename |-> "pdf"]
               /\ job_pc' = "responded"
            \/ \E partial \in {{}, {"pdf"}} :
                  JobFail("HTTPException500", "convert",
                          [job_dir EXCEPT !.files = @ \cup partial])
       ELSE /\ response' = [status |-> 200, step |-> "", filename |-> "output"]
            /\ job_pc' = "responded"
            /\ UNCHANGED job_dir
    /\ UNCHANGED <<request, served>>
    /\ UNCHANGED <<mapVars, anVars, rVars>>

\* download_document(job_id, filename), lines 231-254, with the cleanup it
\* schedules; a file that does not exist is answered 404 and nothing changes
DownloadDocument(filename) ==
    /\ job_pc = "responded"
    /\ job_dir.exists
    /\ filename \in job_dir.files
    /\ served' = served \cup {filename}
    /\ job_dir' = cleanup_job(job_dir)
    /\ UNCHANGED <<job_pc, request, response>>
    /\ UNCHANGED <<mapVars, anVars, rVars>>

\* one request, for every pair of uploads and both output formats
InitJob ==
    /\ mapIdle
    /\ idleAnalyze
    /\ idleRender
    /\ job_pc = "validate"
    /\ request \in [normal : {"", ".docx", ".pdf", ".txt"},
                    target : {"", ".docx", ".pdf", ".pptx", ".txt"},
                    output_format : {"docx", "pdf"}]
    /\ job_dir = [exists |-> FALSE, files |-> {}]
    /\ response = [status |-> 0, step |-> "", filename |-> ""]
    /\ served = {}

NextJob ==
    \/ JobValidate \/ JobSaveUploads \/ JobExtract \/ JobAnalyze \/ JobMap
    \/ JobRender \/ JobConvert
    \/ \E filename \in {"source", "template", "output", "pdf"} :
          DownloadDocument(filename)

SpecJob == InitJob /\ [][NextJob]_vars

-----------------------------------------------------------------------------
(* Claims about the renders, under SpecRebuild and SpecFront *)

\* no paragraph of the template has a heading style of any level
NoHeadingsAtAll ==
    \A k \in 1..Len(paragraphs) :
        ~Contains(Lower(paragraphs[k].style), <<"h", "e", "a", "d", "i", "n", "g">>)

\* C13: for a template with no headings at all, the extractor returns
\* safe_zone_end_idx = 0 and the absence of headings is no error (it fails
\* only when the template cannot be read); the render has removed every
\* paragraph of the template when the rebuild begins, and in the saved
\* document the paragraph at index 0 is the heading of the first section.
C13_NoHeadingsRebuildFromIndexZero ==
    NoHeadingsAtAll =>
        /\ an_pc = "raised" => (~doc_opens \/ fault_at >= 0)
        /\ an_pc = "returned" => template_dna.safe_zone_end_idx = 0
        /\ (r_pc = "rebuild" /\ sec_i = 0) => doc = <<>>
        /\ r_pc = "returned" =>
              /\ saved[1].text = SectionTitle(sections_data[1], 0).list
              /\ saved[1].style = template_dna.heading_style_name
              /\ \A k \in 1..Len(saved), j \in 1..Len(paragraphs) :
                    saved[k].text # paragraphs[j].text

\* a template of two paragraphs and no heading was rendered and saved
C13_Witness ==
    /\ NoHeadingsAtAll
    /\ Len(paragraphs) = 2
    /\ r_pc = "returned"
    /\ Len(saved) >= 2
    /\ template_dna.safe_zone_end_idx = 0

\* the front-matter update of the render has run
FrontUpdated == r_pc \in {"delete", "rebuild", "returned"}
                \/ (r_pc = "raised" /\ sections_data # <<>>)

\* the paragraphs (0-based) whose TOC entry the update rewrote
RewrittenEntries ==
    {toc_entries[i] : i \in 1..Min(Len(toc_entries), Len(sections_data))}

\* d holds the safe zone of the template: same paragraphs at the same indices,
\* the text of a paragraph changed only for the cover title and the rewritten
\* TOC entries
SafeZoneKept(d) ==
    /\ Len(d) >= template_dna.safe_zone_end_idx
    /\ \A k \in 0..(template_dna.safe_zone_end_idx - 1) :
          /\ [d[k + 1] EXCEPT !.text = paragraphs[k + 1].text] = paragraphs[k + 1]
          /\ d[k + 1].text # paragraphs[k + 1].text
                => (k = title_idx \/ k \in RewrittenEntries)

\* C14: a render keeps the paragraphs at the indices [0, safeZoneEnd): none is
\* deleted, none inserted among them, their order is unchanged, and the text
\* of each is unchanged unless it is the detected cover title or a rewritten
\* TOC entry; this holds after the front-matter update, after the removal of
\* the old content, during the rebuild and in the saved document.
C14_SafeZoneParagraphsKept ==
    /\ FrontUpdated => SafeZoneKept(doc)
    /\ r_pc = "returned" => SafeZoneKept(saved)

\* a saved render whose safe zone has a rewritten cover title, a rewritten TOC
\* entry and a paragraph left as it was
C14_Witness ==
    /\ r_pc = "returned"
    /\ template_dna.safe_zone_end_idx >= 3
    /\ title_idx >= 0
    /\ RewrittenEntries # {}
    /\ \E k \in 1..template_dna.safe_zone_end_idx : saved[k] = paragraphs[k]
    /\ \E k \in 1..template_dna.safe_zone_end_idx : saved[k] # paragraphs[k]

\* the score the cover-title heuristic gives the paragraph at index i of the
\* template: +100 title style, +80 style mentioning "cover", +50 first-level
\* heading, + the font size capped at 50, +20 bold, +15 centred, + a bonus of
\* 2 per place before index 10, -30 above 150 characters
C15_Score(i) ==
    LET para == paragraphs[i + 1]
        style == Lower(para.style)
    IN  (IF Contains(style, <<"t", "i", "t", "l", "e">>) THEN 100 ELSE 0)
        + (IF Contains(style, <<"c", "o", "v", "e", "r">>) THEN 80 ELSE 0)
        + (IF Contains(style, <<"h", "e", "a", "d", "i", "n", "g">>)
              /\ Contains(style, <<"1">>) THEN 50 ELSE 0)
        + (IF para.font_pt > 50 THEN 50 ELSE para.font_pt)
        + (IF para.bold THEN 20 ELSE 0)
        + (IF para.centered THEN 15 ELSE 0)
        + 2 * (10 - i)
        - (IF Len(Strip(para.text)) > 150 THEN 30 ELSE 0)

\* the first min(10, safeZoneEnd) paragraphs with at least 5 characters
C15_Candidates ==
    {i \in 0..(Len(paragraphs) - 1) :
        /\ i < 10
        /\ i < template_dna.safe_zone_end_idx
        /\ Len(Strip(paragraphs[i + 1].text)) >= 5}

\* C15: when the front-matter update looks for the cover title (the document
\* title is not empty), the paragraph it detects is one of the first
\* min(10, safeZoneEnd) paragraphs with at least 5 characters of trimmed text,
\* its score is the highest of these and above 20, and a paragraph is
\* detected whenever one of these scores above 20; when none does, no
\* paragraph is rewritten as cover title.
C15_CoverTitleIsBestAbove20 ==
    (FrontUpdated /\ Truthy(SectionTitle(sections_data[1], 0))) =>
        /\ title_idx >= 0 =>
              /\ title_idx \in C15_Candidates
              /\ C15_Score(title_idx) > 20
              /\ \A j \in C15_Candidates : C15_Score(j) <= C15_Score(title_idx)
        /\ title_idx = -1 =>
              /\ \A j \in C15_Candidates : C15_Score(j) <= 20
              /\ \A k \in 0..(template_dna.safe_zone_end_idx - 1) :
                    k \notin RewrittenEntries
                        => doc[k + 1].text = paragraphs[k + 1].text

\* a cover title found at index 9 although a later paragraph of the safe zone
\* scores higher, and a render with candidates none of which is above 20
C15_Witness ==
    /\ FrontUpdated
    /\ title_idx = 9
    /\ template_dna.safe_zone_end_idx > 10
    /\ Len(Strip(paragraphs[11].text)) >= 5
    /\ C15_Score(10) > C15_Score(9)

\* t.startswith(prefix)
IsPrefix(prefix, t) ==
    Len(prefix) <= Len(t) /\ SubSeq(t, 1, Len(prefix)) = prefix

\* "{ordinal}. {title}"
NumberedTitle(ordinal, title) == IntText(ordinal) \o <<".", " ">> \o title

\* C16: in a saved render with k detected TOC entries and n section titles,
\* the i-th of the first min(k, n) entries in document order has a text that
\* begins with ordinal i and the i-th title (a numbering the title begins
\* with is not asked for), every entry beyond the n-th has its original text,
\* and every title, also beyond the k-th, is the text of a heading paragraph
\* of the rebuilt body.
C16_FirstEntriesRewritten ==
    r_pc = "returned" =>
        LET section_titles == SectionTitles(sections_data)
        IN  /\ \A i \in 1..Len(toc_entries) :
                  IF i <= Len(section_titles)
                  THEN IsPrefix(NumberedTitle(i, StripNumbering(section_titles[i].list)),
                                saved[toc_entries[i] + 1].text)
                  ELSE saved[toc_entries[i] + 1].text
                           = paragraphs[toc_entries[i] + 1].text
            /\ \A j \in 1..Len(section_titles) :
                  \E q \in (template_dna.safe_zone_end_idx + 1)..Len(saved) :
                      /\ saved[q].text = section_titles[j].list
                      /\ saved[q].style = template_dna.heading_style_name

\* length of the longest suffix of t made of characters of S
RECURSIVE TailSpanLen(_, _)
TailSpanLen(t, S) ==
    IF t # <<>> /\ t[Len(t)] \in S
    THEN 1 + TailSpanLen(SubSeq(t, 1, Len(t) - 1), S)
    ELSE 0

\* what follows the title in a TOC entry: the text from the first tab or
\* dotted leader on, or else the page number the entry ends with, together
\* with the blanks before it
C17_TrailingPart(text) ==
    LET tab == Find(text, <<"\t">>)
        dots == Find(text, <<".", ".", ".">>)
        digits == TailSpanLen(text, Digits)
        blanks == TailSpanLen(SubSeq(text, 1, Len(text) - digits), Whitespace)
    IN  IF tab >= 0 /\ (dots < 0 \/ tab < dots) THEN Drop(text, tab)
        ELSE IF dots >= 0 THEN Drop(text, dots)
        ELSE IF digits > 0 /\ digits + blanks < Len(text)
        THEN Drop(text, Len(text) - digits - blanks)
        ELSE <<>>

\* C17: in a saved render the text of every rewritten TOC entry is
\* "{ordinal}. {newTitle}{preservedTrailingPart}", the preserved trailing part
\* being the leaders and the page number that followed the title in the
\* entry of the template, whichever pattern made it a TOC entry (a numbering
\* the new title begins with is not asked for).
C17_EntryTextKeepsTrailingPart ==
    r_pc = "returned" =>
        LET section_titles == SectionTitles(sections_data)
        IN  \A i \in 1..Min(Len(toc_entries), Len(section_titles)) :
                saved[toc_entries[i] + 1].text
                    = NumberedTitle(i, StripNumbering(section_titles[i].list))
                      \o C17_TrailingPart(paragraphs[toc_entries[i] + 1].text)

\* the normalized contents of the items of a body, each once, in the order
\* of their first occurrence, the empty one left out
RECURSIVE C18_Values(_, _)
C18_Values(items, seen) ==
    IF items = <<>> THEN <<>>
    ELSE LET v == Normalized(Head(items).content)
         IN  IF v = <<>> \/ v \in seen THEN C18_Values(Tail(items), seen)
             ELSE <<v>> \o C18_Values(Tail(items), seen \cup {v})

\* the index (from 0) at which the block of the j-th section (j from 1)
\* begins in a document whose safe zone ends at sze
RECURSIVE C18_BlockStart(_, _, _)
C18_BlockStart(sd, j, sze) ==
    IF j = 1 THEN sze
    ELSE C18_BlockStart(sd, j - 1, sze)
         + 1 + Len(C18_Values(BodyAsList(sd[j - 1].body), {})) + 1

SectionRebuilt == r_pc \in {"rebuild", "returned"} /\ sec_i >= 1

\* the items of the section the loop took last, as it received them
LastItems == BodyAsList(sections_data[sec_i].body)

\* the type of the items whose normalized content is v: bullet if one of
\* them is a bullet, otherwise subheading if one is, otherwise text
C19_GroupType(items, v) ==
    LET types == {items[k].type : k \in {m \in 1..Len(items) :
                                           Normalized(items[m].content) = v}}
    IN  IF "bullet" \in types THEN "bullet"
        ELSE IF "subheading" \in types THEN "subheading"
        ELSE "text"

\* index of the first item whose normalized content is v
C19_FirstAt(items, v) ==
    CHOOSE k \in 1..Len(items) :
        /\ Normalized(items[k].content) = v
        /\ \A m \in 1..(k - 1) : Normalized(items[m].content) # v

\* C19: for every normalized content of an item of the section whose trimmed
\* content is not empty, the deduplicated body holds exactly one item of that
\* normalized content; its type is bullet if an item of the group is a
\* bullet, otherwise subheading if one is, otherwise text; and the items of
\* the deduplicated body follow the order of first occurrence of their
\* normalized contents.
C19_OneItemPerNormalizedValue ==
    SectionRebuilt =>
        LET items == LastItems
            out == deduplicated_body
        IN  /\ \A k \in 1..Len(items) :
                  Strip(items[k].content) # <<>> =>
                      LET v == Normalized(items[k].content)
                          at == {q \in 1..Len(out) : Normalized(out[q].content) = v}
                      IN  /\ Cardinality(at) = 1
                          /\ \A q \in at : out[q].type = C19_GroupType(items, v)
            /\ \A q, r \in 1..Len(out) :
                  q < r => C19_FirstAt(items, Normalized(out[q].content))
                           < C19_FirstAt(items, Normalized(out[r].content))

\* the paragraph added for the q-th item of the deduplicated body of the
\* section the loop took last
LastSectionPara(q) ==
    doc[Len(doc) - (IF sec_i < Len(sections_data) THEN 1 ELSE 0)
        - Len(deduplicated_body) + q]

\* the text of a bullet paragraph, without the glyph and the blank the
\* renderer puts before it when the template has no bullet style
C20_BulletText(para) ==
    IF para.style # bullet_style_name /\ IsPrefix(<<BulletGlyph, " ">>, para.text)
    THEN Drop(para.text, 2)
    ELSE para.text

\* a text begins with a dash, an asterisk, a bullet glyph, a numeric prefix
\* ("1.") or a lettered prefix ("a.", "a)")
C20_HasMarker(t) ==
    \/ t # <<>> /\ Head(t) \in {"-", "*", BulletGlyph}
    \/ SpanLen(t, Digits) >= 1 /\ Len(t) > SpanLen(t, Digits)
       /\ t[SpanLen(t, Digits) + 1] = "."
    \/ Len(t) >= 2 /\ t[1] \in Letters /\ t[2] \in {".", ")"}

\* C20: a body of the two items "- Launched product" and "Launched product",
\* one typed bullet and one typed text, is rebuilt as exactly one paragraph,
\* a bullet whose text is "Launched product"; and the text of every bullet
\* paragraph emitted begins with no dash, asterisk, bullet glyph, numeric
\* prefix or lettered prefix.
C20_BulletTextsClean ==
    SectionRebuilt =>
        /\ (/\ Len(LastItems) = 2
            /\ {LastItems[1], LastItems[2]}
                 = {Item("bullet", <<"-", " ", "L", "a", "u", "n", "c", "h", "e", "d", " ", "p", "r", "o", "d", "u", "c", "t">>),
                    Item("text", <<"L", "a", "u", "n", "c", "h", "e", "d", " ", "p", "r", "o", "d", "u", "c", "t">>)})
           => /\ Len(deduplicated_body) = 1
              /\ deduplicated_body[1].type = "bullet"
              /\ C20_BulletText(LastSectionPara(1))
                     = <<"L", "a", "u", "n", "c", "h", "e", "d", " ", "p", "r", "o", "d", "u", "c", "t">>
        /\ \A q \in 1..Len(deduplicated_body) :
              deduplicated_body[q].type = "bullet"
                  => ~C20_HasMarker(C20_BulletText(LastSectionPara(q)))

-----------------------------------------------------------------------------
(* Claims about failures, the job, the chunk loop and the front matter,    *)
(* under SpecRebuild, SpecJob, SpecMap, SpecMerge and SpecFront            *)

\* C21: an exception raised while the document is mutated, in the front-matter
\* update or in the body rebuild, aborts the render with a RenderingError: a
\* render that returned its output path, or saved the output document, is one
\* in which no exception was raised, and a render that raised left with a
\* RenderingError and saved nothing.
C21_MutationFailureAborts ==
    /\ r_pc = "returned" => ~front_warned
    /\ saved # <<>> => ~front_warned
    /\ r_pc = "raised" => (r_exc = "RenderingError" /\ saved = <<>>)

\* C22: when process_documents has ended in a failure, at whatever step, the
\* job's temporary directory does not exist, and no file of the job has been
\* or can be downloaded.
C22_FailedJobLeavesNothing ==
    (job_pc = "responded" /\ response.status # 200)
        => /\ ~job_dir.exists
           /\ job_dir.files = {}
           /\ served = {}

\* the PDF conversion failed after the rendered document had been written
C22_Witness ==
    /\ job_pc = "responded"
    /\ response.status = 500
    /\ response.step = "convert"
    /\ ~job_dir.exists

\* what C23 says of every state of the chunk loop: between one and
\* max_retries + 1 calls are made for a chunk, one result is recorded per
\* chunk and in chunk order, and the merger starts with all the results
C23_OneResultPerChunk ==
    /\ tries <= max_retries + 1
    /\ pc = "record" => tries >= 1
    /\ pc \in {"chunk", "attempt", "record", "merge"}
           => /\ Len(all_sections) = chunk_idx
              /\ chunk_idx <= Len(chunks)
    /\ pc = "merge" => Len(all_sections) = Len(chunks)
    /\ \A k \in 1..Len(all_sections), j \in 1..Len(chunks) :
           all_sections[k] = Fallback(j - 1, chunks[j]) => j = k

C24_ChunksPartitionBlocks ==
    pc \in {"chunk", "attempt", "record", "merge", "returned"} =>
        /\ Flatten(chunks) = blocks
        /\ \A k \in 1..Len(chunks) : Len(chunks[k]) <= ChunkSize
        /\ Len(blocks) > ChunkSize =>
              /\ \A k \in 1..Len(chunks) : Len(chunks[k]) >= 1
              /\ \A k \in 1..(Len(chunks) - 1) : Len(chunks[k]) = ChunkSize

\* a list that is split, with a last chunk that is not full
C24_Witness ==
    /\ pc = "chunk"
    /\ Len(blocks) > ChunkSize
    /\ Len(chunks) >= 2
    /\ Len(chunks[Len(chunks)]) < ChunkSize

\* the paragraph at index h (0-based) of the safe zone is a TOC heading: its
\* text, in the template or as the update left it, contains "contents"
C25_IsTocHeading(h) ==
    \/ Contains(Lower(paragraphs[h + 1].text),
                <<"c", "o", "n", "t", "e", "n", "t", "s">>)
    \/ Contains(Lower(doc[h + 1].text),
                <<"c", "o", "n", "t", "e", "n", "t", "s">>)

\* C25: every paragraph classified as a TOC entry lies in the safe zone after
\* a paragraph that is a TOC heading; with no TOC heading in the safe zone no
\* paragraph is classified as a TOC entry, and none is rewritten.
C25_TocEntriesFollowTocHeading ==
    (FrontUpdated /\ r_pc = "delete") =>
        \A k \in 1..Len(toc_entries) :
            /\ toc_entries[k] < template_dna.safe_zone_end_idx
            /\ \E h \in 0..(toc_entries[k] - 1) : C25_IsTocHeading(h)

\* C26: a subheading item is emitted with the subheading style, and with no
\* font size derived from the body size, when the document has that style;
\* when it has not, the item is emitted with the body style, bold, and with
\* a font size greater than the body font size of the profile.
C26_SubheadingStyleOrLargerBody ==
    SectionRebuilt =>
        \A q \in 1..Len(deduplicated_body) :
            deduplicated_body[q].type = "subheading" =>
                IF StyleExists(subheading_style_name)
                THEN /\ LastSectionPara(q).style = subheading_style_name
                     /\ LastSectionPara(q).font_pt = 0
                ELSE /\ LastSectionPara(q).style = template_dna.body_style_name
                     /\ LastSectionPara(q).bold
                     /\ template_dna.body_font_size > 0
                            => LastSectionPara(q).font_pt
                                   > template_dna.body_font_size

\* C27: the dedup of a section drops no content: for every item of the body
\* whose trimmed content is not empty, the items emitted for the section
\* include one of the same normalized content.
C27_DedupDropsNoContent ==
    SectionRebuilt =>
        \A k \in 1..Len(LastItems) :
            Strip(LastItems[k].content) # <<>> =>
                \E q \in 1..Len(deduplicated_body) :
                    /\ Normalized(deduplicated_body[q].content)
                           = Normalized(LastItems[k].content)
                    /\ LastSectionPara(q).text # <<>>

\* the sections of secs whose title is empty or blank
C28_Untitled(secs) ==
    SelectSeq(secs, LAMBDA sec : NormTitle(sec.title) = <<>>)

\* C28: the merger fuses no two sections whose titles are empty or blank:
\* every untitled section of the input is a section of the output, with its
\* own body, in input order.
C28_UntitledSectionsStayApart ==
    pc = "returned" =>
        C28_Untitled(merged_sections) = C28_Untitled(Flatten(all_sections))

\* C29: the result recorded for a chunk is the synthetic fallback section, or
\* what the attempt that ended the retry loop without raising obtained; when
\* the last attempt of the chunk ended with an exception, the result is the
\* fallback and no answer of a failed attempt.
C29_NoResultFromFailedAttempt ==
    (pc = "chunk" /\ chunk_idx >= 1) =>
        \/ all_sections[chunk_idx] = Fallback(chunk_idx - 1, chunks[chunk_idx])
        \/ /\ last_answer \in {"list", "nonlist"}
           /\ all_sections[chunk_idx] = chunk_sections.list

\* C30: the paragraph rewritten as cover title is no TOC heading and no TOC
\* entry; the TOC entries found after the cover rewrite are those of the
\* template as it was; and when the update ends the text of the cover
\* paragraph is the document title, the title of the first section.
C30_CoverAndTocDisjoint ==
    (r_pc = "delete" /\ title_idx >= 0) =>
        /\ ~C25_IsTocHeading(title_idx)
        /\ \A k \in 1..Len(toc_entries) : toc_entries[k] # title_idx
        /\ toc_entries = FindTocEntries(paragraphs,
                                        template_dna.safe_zone_end_idx, 0, -1,
                                        <<>>)
        /\ doc[title_idx + 1].text = SectionTitles(sections_data)[1].list

====
